---- MODULE Spec2Model ----
(***************************************************************************)
(* Model of the WhatsApp gateway server (src/server.js): the per-key       *)
(* session registry (whatsappClients, sessionStates), the quota ledger     *)
(* kept in the users store, and the send pipeline (single, reply, bulk).   *)
(*                                                                         *)
(* The server is one event loop.  Every action below is one run-to-        *)
(* completion turn of it: a request handler up to its first `await`, the   *)
(* continuation after an `await` settles, a provider event handler, or a   *)
(* timer callback.  The provider (whatsapp-web.js Client) is the           *)
(* environment: its answers are chosen nondeterministically.               *)
(***************************************************************************)
EXTENDS Integers, Sequences, FiniteSets, TLC

(***************************************************************************)
(* Bounds of the model.                                                    *)
(***************************************************************************)
MaxHandles == 3       \* Client objects ever constructed
MaxRestarts == 2      \* restart / logout requests in flight at once
MaxTimers == 1        \* pending 5 s re-initialize timers per handle
MaxRepeats == 2       \* the same, where a signal is delivered again
MaxPendingQr == 1     \* qr handlers suspended in encodeQr, per key
MaxSenders == 3       \* send requests (single, reply, bulk) issued
MaxConcurrent == 2    \* of them, requests with arbitrary inputs
MaxBulk == 3          \* recipients of a bulk campaign
MaxLimit == 2         \* largest stored quotaLimit of the acting user at the start
MaxGrants == 1        \* credit purchases
MaxEdits == 2         \* admin quota edits
MaxSubs == 2          \* event-stream subscriptions opened
MaxEmitted == 3       \* session updates emitted on one key's emitter
MaxMessages == 3      \* inbound messages received
MAX_INBOX_MESSAGES == 2   \* process.env.MAX_INBOX_MESSAGES (60 when unset)
MaxPhoneLen == 10     \* characters of a phone input

(***************************************************************************)
(* Program constants.                                                      *)
(***************************************************************************)
FREE_QUOTA == 10

Keys == {"k1", "k2"}
OneKey == {"k1"}
Handles == 1 .. MaxHandles
RProcs == 1 .. MaxRestarts
SProcs == 1 .. MaxSenders
Subs == 1 .. MaxSubs
NoHandle == 0
\* sentinel: the sessionStates Map has no entry for the key
NoState == [status |-> "absent", qr |-> "null", lastError |-> "null", updatedAt |-> "null"]

VARIABLES
    sessionStates,    \* key -> NoState | [status, qr, lastError, updatedAt]
    whatsappClients,  \* key -> installed handle, NoHandle when the Map has no entry
    handles,          \* handle -> [key, phase]: every Client ever constructed
    timers,           \* handle -> pending setTimeout callbacks of its disconnected handler
    pendingQr,        \* key -> qr handlers awaiting encodeQr
    rp,               \* restart/logout request -> [pc, key, existing, viaLogout, loErr, tdErr, result]
    users,            \* key (user id) -> stored user record of users.json
    sp,               \* send request -> its position and locals
    audit,            \* key -> what the provider accepted / the ledger applied (history)
    sessionEmitters,  \* key -> [made, listeners, emitted]: the key's EventEmitter
    sessionStreams,   \* subscription -> the response of GET /api/session/events
    inboxEmitter,     \* [listeners, emitted]: the inbox EventEmitter
    inboxMessages,    \* the history buffer, most recent first
    inboxStreams,     \* subscription -> the response of GET /api/inbox/events
    inboxReply,       \* the last response of GET /api/inbox
    pureCall          \* a call of a pure function: [fn, arg, done, result]

sessVars == <<sessionStates, whatsappClients, handles, timers, pendingQr, rp>>
sendVars == <<users, sp, audit>>
topicVars == <<sessionEmitters, sessionStreams>>
inboxVars == <<inboxEmitter, inboxMessages, inboxStreams, inboxReply>>
pushVars == <<sessionEmitters, sessionStreams, inboxEmitter, inboxMessages, inboxStreams, inboxReply>>
vars == <<sessionStates, whatsappClients, handles, timers, pendingQr, rp, users, sp, audit,
          sessionEmitters, sessionStreams, inboxEmitter, inboxMessages, inboxStreams,
          inboxReply, pureCall>>

(***************************************************************************)
(* Session state (getSessionState / updateSession).                        *)
(***************************************************************************)
Statuses == {"starting", "qr", "loading", "authenticated", "connected",
             "disconnected", "auth_failure", "restarting"}

\* updatedAt: new Date().toISOString(), a timestamp ("now") and never null
FreshState == [status |-> "starting", qr |-> "null", lastError |-> "null", updatedAt |-> "now"]

\* getSessionState(key): the state is created on first access.
getSessionState(ss, k) == IF ss[k] = NoState THEN FreshState ELSE ss[k]

\* mutant of Touched: the state made on first access is not stored
TouchedNotStored(ss, k) == ss

\* the sessionStates map after a call of getSessionState(key)
Touched(ss, k) == [ss EXCEPT ![k] = getSessionState(ss, k)]

\* mutant of updateSession: the partial is merged into the state of every key
updateSessionOfAll(ss, k, partial) ==
    [j \in DOMAIN ss |->
        LET cur == getSessionState(ss, j)
        IN  [f \in DOMAIN cur |->
                IF f = "updatedAt" THEN "now"
                ELSE IF f \in DOMAIN partial THEN partial[f] ELSE cur[f]]]

\* updateSession(key, partial): { ...current, ...partial, updatedAt }
updateSession(ss, k, partial) ==
    LET cur == getSessionState(ss, k)
    IN  [ss EXCEPT ![k] = [f \in DOMAIN cur |->
                              IF f = "updatedAt" THEN "now"
                              ELSE IF f \in DOMAIN partial THEN partial[f] ELSE cur[f]]]

\* a response stream: not opened ("none"), "open", "broken" (open, and a write
\* to it raises), or "closed" by its client;
\* out is what was written to it.  from / upto: how many events its emitter
\* had emitted when the listener was registered / removed (history)
NoStream == [pc |-> "none", key |-> "k1", out |-> <<>>, from |-> 0, upto |-> 0]
\* thrown: an emit of this emitter raised to its caller (history)
NoEmitter == [made |-> FALSE, listeners |-> {}, emitted |-> <<>>, thrown |-> FALSE]

\* mutant of emitSessionUpdate: the update is written to the listeners of every key
emitSessionUpdateToAll(k, next) ==
    IF sessionEmitters[k].made
    THEN /\ sessionEmitters' = [sessionEmitters EXCEPT ![k].emitted = Append(@, next)]
         /\ sessionStreams' = [s \in Subs |->
                IF \E j \in Keys : s \in sessionEmitters[j].listeners
                THEN [sessionStreams[s] EXCEPT !.out = Append(@, next)]
                ELSE sessionStreams[s]]
    ELSE UNCHANGED <<sessionEmitters, sessionStreams>>

\* the listeners emit() runs, in registration order (subscriptions are numbered
\* in the order they are opened): a listener whose write raises ends the emit
reached(ls) ==
    {s \in ls : \A t \in ls : t < s => sessionStreams[t].pc # "broken"}

\* the end of updateSession: if the key has an emitter,
\* emitter.emit("session:update", {...next}) runs the listeners, each of which
\* writes the payload to its response; nothing catches a raise of a listener
emitSessionUpdate(k, next) ==
    IF sessionEmitters[k].made
    THEN LET ls == sessionEmitters[k].listeners
         IN  /\ sessionEmitters' = [sessionEmitters EXCEPT
                    ![k].emitted = Append(@, next),
                    ![k].thrown = @ \/ \E s \in ls : sessionStreams[s].pc = "broken"]
             /\ sessionStreams' = [s \in Subs |->
                    IF s \in reached(ls) /\ sessionStreams[s].pc = "open"
                    THEN [sessionStreams[s] EXCEPT !.out = Append(@, next)]
                    ELSE sessionStreams[s]]
    ELSE UNCHANGED <<sessionEmitters, sessionStreams>>

(***************************************************************************)
(* Handles.  phase "unbuilt": not constructed yet.  "init" .. "down": the  *)
(* provider's side of a constructed, initialized Client.  "closing":       *)
(* destroy() was called and has not settled.  "destroyed": torn down.      *)
(***************************************************************************)
ProviderPhases == {"init", "pairing", "authed", "ready", "failed", "down"}
LivePhases == ProviderPhases \cup {"closing"}

Built == {h \in Handles : handles[h].phase # "unbuilt"}
InFlight == {r \in RProcs : rp[r].pc # "idle"}
\* a new Client can be constructed, also for every request already in flight
Budget == Cardinality(Built) + Cardinality(InFlight) < MaxHandles
NewHandle == CHOOSE h \in Handles \ Built : \A g \in Handles \ Built : h <= g

\* buildClientForKey(key): new Client, handlers registered, client.initialize()
buildClientForKey(hs, h, k) == [hs EXCEPT ![h] = [key |-> k, phase |-> "init"]]

\* mutant of ensureClientForKey: a Client is built on every call
ensureClientRebuilds(k) ==
    /\ Budget
    /\ handles' = buildClientForKey(handles, NewHandle, k)
    /\ whatsappClients' = [whatsappClients EXCEPT ![k] = NewHandle]

\* ensureClientForKey(key)
ensureClientForKey(k) ==
    IF whatsappClients[k] = NoHandle
    THEN /\ Budget
         /\ handles' = buildClientForKey(handles, NewHandle, k)
         /\ whatsappClients' = [whatsappClients EXCEPT ![k] = NewHandle]
    ELSE UNCHANGED <<handles, whatsappClients>>

\* GET /api/session: ensureClientForKey(key); res.json(getSessionState(key))
Ensure(k) ==
    /\ ensureClientForKey(k)
    /\ sessionStates' = Touched(sessionStates, k)
    /\ UNCHANGED <<timers, pendingQr, rp, sendVars>>
    /\ UNCHANGED pushVars
    /\ UNCHANGED pureCall

(***************************************************************************)
(* Provider lifecycle signals, handled by the listeners that               *)
(* buildClientForKey registers.  A signal is emitted by a handle whose     *)
(* provider side is in a phase that can produce it (or repeat it).         *)
(***************************************************************************)
Emits(h, from, to) ==
    /\ handles[h].phase \in from
    /\ handles' = [handles EXCEPT ![h].phase = to]

\* client.on("qr"): suspends in encodeQr before it updates the state
OnQr(h) ==
    /\ Emits(h, {"init", "pairing"}, "pairing")
    /\ pendingQr[handles[h].key] < MaxPendingQr
    /\ pendingQr' = [pendingQr EXCEPT ![handles[h].key] = @ + 1]
    /\ UNCHANGED <<sessionStates, whatsappClients, timers, rp, sendVars>>
    /\ UNCHANGED pushVars
    /\ UNCHANGED pureCall

\* continuation of the qr handler: encodeQr returned a data URL, or null on error
QrEncoded(k) ==
    /\ pendingQr[k] > 0
    /\ pendingQr' = [pendingQr EXCEPT ![k] = @ - 1]
    /\ \E qrData \in {"data", "null"} :
          sessionStates' = updateSession(sessionStates, k,
              [status |-> "qr", qr |-> qrData, lastError |-> "null"])
    /\ UNCHANGED <<whatsappClients, handles, timers, rp, sendVars>>
    /\ emitSessionUpdate(k, sessionStates'[k])
    /\ UNCHANGED inboxVars
    /\ UNCHANGED pureCall

\* client.on("loading_screen")
OnLoadingScreen(h) ==
    /\ Emits(h, {"init", "pairing", "authed"}, handles[h].phase)
    /\ sessionStates' = updateSession(sessionStates, handles[h].key,
           [status |-> "loading", lastError |-> "null"])
    /\ UNCHANGED <<whatsappClients, timers, pendingQr, rp, sendVars>>
    /\ emitSessionUpdate(handles[h].key, sessionStates'[handles[h].key])
    /\ UNCHANGED inboxVars
    /\ UNCHANGED pureCall

\* client.on("authenticated")
OnAuthenticated(h) ==
    /\ Emits(h, {"init", "pairing", "authed"}, "authed")
    /\ sessionStates' = updateSession(sessionStates, handles[h].key,
           [status |-> "authenticated", qr |-> "null", lastError |-> "null"])
    /\ UNCHANGED <<whatsappClients, timers, pendingQr, rp, sendVars>>
    /\ emitSessionUpdate(handles[h].key, sessionStates'[handles[h].key])
    /\ UNCHANGED inboxVars
    /\ UNCHANGED pureCall

\* client.on("ready")
OnReady(h) ==
    /\ Emits(h, {"authed", "ready"}, "ready")
    /\ sessionStates' = updateSession(sessionStates, handles[h].key,
           [status |-> "connected", qr |-> "null", lastError |-> "null"])
    /\ UNCHANGED <<whatsappClients, timers, pendingQr, rp, sendVars>>
    /\ emitSessionUpdate(handles[h].key, sessionStates'[handles[h].key])
    /\ UNCHANGED inboxVars
    /\ UNCHANGED pureCall

\* client.on("auth_failure")
OnAuthFailure(h) ==
    /\ Emits(h, {"init", "pairing", "failed"}, "failed")
    /\ sessionStates' = updateSession(sessionStates, handles[h].key,
           [status |-> "auth_failure", qr |-> "null", lastError |-> "err"])
    /\ UNCHANGED <<whatsappClients, timers, pendingQr, rp, sendVars>>
    /\ emitSessionUpdate(handles[h].key, sessionStates'[handles[h].key])
    /\ UNCHANGED inboxVars
    /\ UNCHANGED pureCall

\* client.on("disconnected"): updates the state and arms the 5 s timer;
\* cap bounds the timers pending for the handle
OnDisconnectedWithin(h, cap) ==
    /\ Emits(h, {"authed", "ready", "down"}, "down")
    /\ timers[h] < cap
    /\ sessionStates' = updateSession(sessionStates, handles[h].key,
           [status |-> "disconnected", qr |-> "null", lastError |-> "err"])
    /\ timers' = [timers EXCEPT ![h] = @ + 1]
    /\ UNCHANGED <<whatsappClients, pendingQr, rp, sendVars>>
    /\ emitSessionUpdate(handles[h].key, sessionStates'[handles[h].key])
    /\ UNCHANGED inboxVars
    /\ UNCHANGED pureCall

OnDisconnected(h) == OnDisconnectedWithin(h, MaxTimers)

\* the setTimeout callback: if (whatsappClients.get(key) === client) client.initialize()
TimerFire(h) ==
    /\ timers[h] > 0
    /\ timers' = [timers EXCEPT ![h] = @ - 1]
    /\ handles' = IF whatsappClients[handles[h].key] = h
                  THEN [handles EXCEPT ![h].phase = "init"]
                  ELSE handles
    /\ UNCHANGED <<sessionStates, whatsappClients, pendingQr, rp, sendVars>>
    /\ UNCHANGED pushVars
    /\ UNCHANGED pureCall

(***************************************************************************)
(* restartWhatsAppClient and POST /api/session/logout.                     *)
(***************************************************************************)
\* loErr: the last client.logout() of the request rejected;
\* tdErr: the last teardown of the request rejected; result: how the last
\* restartWhatsAppClient of the request settled ("none", "ok", "error")
IdleProc == [pc |-> "idle", key |-> "k1", existing |-> NoHandle,
             viaLogout |-> FALSE, loErr |-> FALSE, tdErr |-> FALSE,
             result |-> "none"]

\* existing.destroy() is called: the handle starts closing
destroyCalled(hs, h) ==
    IF hs[h].phase \in ProviderPhases THEN [hs EXCEPT ![h].phase = "closing"] ELSE hs

\* existing.destroy() settled (resolved or rejected): the handle is released,
\* unless initialize() was called on it again while it was closing
destroySettled(hs, h) ==
    IF hs[h].phase = "closing" THEN [hs EXCEPT ![h].phase = "destroyed"] ELSE hs

\* restartWhatsAppClient(key) up to its await: status restarting, then either
\* `await existing.destroy()` or, with no entry in the Map, the build at once
restartEnter(r, k, logout, loFailed) ==
    /\ sessionStates' = updateSession(sessionStates, k,
           [status |-> "restarting", qr |-> "null"])
    /\ IF whatsappClients[k] # NoHandle
       THEN /\ handles' = destroyCalled(handles, whatsappClients[k])
            /\ rp' = [rp EXCEPT ![r] = [pc |-> "destroy", key |-> k,
                          existing |-> whatsappClients[k],
                          viaLogout |-> logout, loErr |-> loFailed,
                          tdErr |-> FALSE, result |-> "none"]]
            /\ UNCHANGED whatsappClients
       ELSE /\ handles' = buildClientForKey(handles, NewHandle, k)
            /\ whatsappClients' = [whatsappClients EXCEPT ![k] = NewHandle]
            /\ rp' = [rp EXCEPT ![r] = [IdleProc EXCEPT !.result = "ok",
                                                       !.loErr = loFailed]]
    /\ emitSessionUpdate(k, sessionStates'[k])
    /\ UNCHANGED inboxVars
    /\ UNCHANGED pureCall

\* POST /api/session/restart
RestartBegin(r, k) ==
    /\ rp[r].pc = "idle"
    /\ Budget
    /\ restartEnter(r, k, FALSE, FALSE)
    /\ UNCHANGED <<timers, pendingQr, sendVars>>

\* mutant of restartAfterDestroy: a rejected destroy() is rethrown
restartRethrows(hs, wc, h, k, existing, failed) ==
    IF failed
    THEN [handles |-> destroySettled(hs, existing), clients |-> wc, result |-> "error"]
    ELSE [handles |-> buildClientForKey(destroySettled(hs, existing), h, k),
          clients |-> [wc EXCEPT ![k] = h], result |-> "ok"]

\* mutant of restartAfterDestroy: the entry of the key is removed, the new
\* Client is built but not installed
restartUninstalls(hs, wc, h, k, existing, failed) ==
    [handles |-> buildClientForKey(destroySettled(hs, existing), h, k),
     clients |-> [wc EXCEPT ![k] = NoHandle], result |-> "ok"]

\* restartWhatsAppClient after `await existing.destroy()` settled: a rejection
\* is caught and logged; buildClientForKey(key), whatsappClients.set, return
restartAfterDestroy(hs, wc, h, k, existing, failed) ==
    [handles |-> buildClientForKey(destroySettled(hs, existing), h, k),
     clients |-> [wc EXCEPT ![k] = h], result |-> "ok"]

\* continuation of restartWhatsAppClient after `await existing.destroy()`
RestartFinish(r) ==
    /\ rp[r].pc = "destroy"
    /\ \E failed \in BOOLEAN :
         LET out == restartAfterDestroy(handles, whatsappClients, NewHandle,
                                        rp[r].key, rp[r].existing, failed)
         IN  /\ handles' = out.handles
             /\ whatsappClients' = out.clients
             /\ rp' = [rp EXCEPT ![r] = [IdleProc EXCEPT !.tdErr = failed,
                                                        !.loErr = rp[r].loErr,
                                                        !.result = out.result]]
    /\ UNCHANGED <<sessionStates, timers, pendingQr, sendVars>>
    /\ UNCHANGED pushVars
    /\ UNCHANGED pureCall

\* POST /api/session/logout up to `await client.logout()`; without a client
\* the handler answers "No active client." and changes nothing
LogoutBegin(r, k) ==
    /\ rp[r].pc = "idle"
    /\ Budget
    /\ whatsappClients[k] # NoHandle
    /\ rp' = [rp EXCEPT ![r] = [pc |-> "logout", key |-> k,
                  existing |-> whatsappClients[k],
                  viaLogout |-> TRUE, loErr |-> FALSE, tdErr |-> FALSE,
                  result |-> "none"]]
    /\ UNCHANGED <<sessionStates, whatsappClients, handles, timers, pendingQr, sendVars>>
    /\ UNCHANGED pushVars
    /\ UNCHANGED pureCall

\* mutant of logoutSettled: a rejected client.logout() ends the request
logoutAborts(failed) == IF failed THEN "error" ELSE "restart"

\* the logout handler after `await client.logout()` settled: a rejection is
\* caught and logged, and restartWhatsAppClient(key) follows either way
logoutSettled(failed) == "restart"

\* continuation of POST /api/session/logout after `await client.logout()`
LogoutSettled(r) ==
    /\ rp[r].pc = "logout"
    /\ \E failed \in BOOLEAN :
         IF logoutSettled(failed) = "restart"
         THEN restartEnter(r, rp[r].key, TRUE, failed)
         ELSE /\ rp' = [rp EXCEPT ![r] = [IdleProc EXCEPT !.loErr = failed,
                                                         !.result = "error"]]
              /\ UNCHANGED <<sessionStates, whatsappClients, handles>>
              /\ UNCHANGED pushVars
              /\ UNCHANGED pureCall
    /\ UNCHANGED <<timers, pendingQr, sendVars>>

(***************************************************************************)
(* Session-state stream, GET /api/session/events.                          *)
(***************************************************************************)
\* the handler, all in one turn: ensureClientForKey(key), the snapshot
\* getSessionState(key) written, the key's emitter made if missing, the
\* listener registered
SubscribeSession(s, k) ==
    /\ sessionStreams[s].pc = "none"
    /\ ensureClientForKey(k)
    /\ sessionStates' = Touched(sessionStates, k)
    /\ sessionStreams' = [sessionStreams EXCEPT ![s] =
           [pc |-> "open", key |-> k, out |-> <<getSessionState(sessionStates, k)>>,
            from |-> Len(sessionEmitters[k].emitted), upto |-> 0]]
    /\ sessionEmitters' = [sessionEmitters EXCEPT ![k].made = TRUE,
                                                  ![k].listeners = @ \cup {s}]
    /\ UNCHANGED <<timers, pendingQr, rp, sendVars, inboxVars>>
    /\ UNCHANGED pureCall

\* req.on("close"): emitter.off("session:update", listener)
CloseSession(s) ==
    /\ sessionStreams[s].pc \in {"open", "broken"}
    /\ sessionEmitters' = [sessionEmitters EXCEPT
           ![sessionStreams[s].key].listeners = @ \ {s}]
    /\ sessionStreams' = [sessionStreams EXCEPT ![s].pc = "closed",
           ![s].upto = Len(sessionEmitters[sessionStreams[s].key].emitted)]
    /\ UNCHANGED <<sessVars, sendVars, inboxVars>>
    /\ UNCHANGED pureCall

\* the response of a subscriber can no longer be written: res.write raises
BreakSession(s) ==
    /\ sessionStreams[s].pc = "open"
    /\ sessionStreams' = [sessionStreams EXCEPT ![s].pc = "broken"]
    /\ UNCHANGED <<sessVars, sendVars, sessionEmitters, inboxVars>>
    /\ UNCHANGED pureCall

(***************************************************************************)
(* Inbox: the message listener, addInboxMessage, GET /api/inbox/events and *)
(* GET /api/inbox.  An entry is [id, sessionKey]; the id of a message is   *)
(* its arrival number.                                                     *)
(***************************************************************************)
\* mutant of inboxListener: the entry is written whatever its sessionKey
inboxListenerUnfiltered(stream, entry) ==
    [stream EXCEPT !.out = Append(@, entry)]

\* the listener of GET /api/inbox/events: if (entry.sessionKey === key) res.write(entry)
inboxListener(stream, entry) ==
    IF entry.sessionKey = stream.key THEN [stream EXCEPT !.out = Append(@, entry)]
    ELSE stream

\* inboxMessages after addInboxMessage(entry): unshift, then cut to the capacity
addInboxMessage(msgs, entry) ==
    LET m == <<entry>> \o msgs
    IN  IF Len(m) > MAX_INBOX_MESSAGES THEN SubSeq(m, 1, MAX_INBOX_MESSAGES) ELSE m

\* client.on("message") of a connected handle: the entry is made with the key
\* of the handle, stored, and emitted on the inbox emitter
OnMessage(h) ==
    /\ handles[h].phase = "ready"
    /\ Len(inboxEmitter.emitted) < MaxMessages
    /\ LET entry == [id |-> Len(inboxEmitter.emitted) + 1, sessionKey |-> handles[h].key]
       IN  /\ inboxMessages' = addInboxMessage(inboxMessages, entry)
           /\ inboxEmitter' = [inboxEmitter EXCEPT !.emitted = Append(@, entry)]
           /\ inboxStreams' = [s \in Subs |->
                  IF s \in inboxEmitter.listeners
                  THEN inboxListener(inboxStreams[s], entry)
                  ELSE inboxStreams[s]]
    /\ UNCHANGED <<sessVars, sendVars, topicVars, inboxReply>>
    /\ UNCHANGED pureCall

\* GET /api/inbox/events: the listener is registered, nothing is written
SubscribeInbox(s, k) ==
    /\ inboxStreams[s].pc = "none"
    /\ inboxStreams' = [inboxStreams EXCEPT ![s] =
           [pc |-> "open", key |-> k, out |-> <<>>,
            from |-> Len(inboxEmitter.emitted), upto |-> 0]]
    /\ inboxEmitter' = [inboxEmitter EXCEPT !.listeners = @ \cup {s}]
    /\ UNCHANGED <<sessVars, sendVars, topicVars, inboxMessages, inboxReply>>
    /\ UNCHANGED pureCall

\* req.on("close"): inboxEmitter.off("inbox:new", listener)
CloseInbox(s) ==
    /\ inboxStreams[s].pc = "open"
    /\ inboxEmitter' = [inboxEmitter EXCEPT !.listeners = @ \ {s}]
    /\ inboxStreams' = [inboxStreams EXCEPT ![s].pc = "closed",
                                            ![s].upto = Len(inboxEmitter.emitted)]
    /\ UNCHANGED <<sessVars, sendVars, topicVars, inboxMessages, inboxReply>>
    /\ UNCHANGED pureCall

\* the `limit` of a query that names none: Number(req.query.limit || 50)
DefaultLimit == 50
\* req.query.limit: <<>> when the query names none, <<n>> when it names n
NoLimit == <<>>
\* Number(req.query.limit || 50)
limitOf(limit) == IF limit = NoLimit THEN DefaultLimit ELSE limit[1]

\* Array.prototype.slice(0, end): a negative end counts from the end
slice0(q, end) ==
    LET n == Len(q)
        e == IF end < 0 THEN (IF n + end > 0 THEN n + end ELSE 0)
             ELSE IF end > n THEN n ELSE end
    IN  SubSeq(q, 1, e)

\* inboxMessages.filter((m) => m.sessionKey === key).slice(0, limit)
inboxQuery(msgs, k, limit) ==
    LET ofKey(m) == m.sessionKey = k
    IN  slice0(SelectSeq(msgs, ofKey), limitOf(limit))

NoReply == [asked |-> FALSE, key |-> "k1", limit |-> NoLimit, messages |-> <<>>]

\* GET /api/inbox?limit=
PullInbox(k, limit) ==
    /\ inboxReply' = [asked |-> TRUE, key |-> k, limit |-> limit,
                      messages |-> inboxQuery(inboxMessages, k, limit)]
    /\ UNCHANGED <<sessVars, sendVars, topicVars, inboxEmitter, inboxMessages,
                   inboxStreams>>
    /\ UNCHANGED pureCall

(***************************************************************************)
(* Phone Normalizer (parsePhone).  A string is a sequence of characters.   *)
(***************************************************************************)
DigitChars == {"0", "1", "2", "3", "4", "5", "6", "7", "8", "9"}
IsDigit(c) == c \in DigitChars

RECURSIVE StripLeadingZeros(_)
\* digits.replace(/^0+/, "")
StripLeadingZeros(d) ==
    IF d # <<>> /\ d[1] = "0" THEN StripLeadingZeros(Tail(d)) ELSE d

\* mutant of parsePhone: seven digits are enough
parsePhoneShort(input) ==
    LET d0 == SelectSeq(input, IsDigit)
        d1 == IF Len(d0) >= 2 /\ d0[1] = "0" /\ d0[2] = "0"
              THEN SubSeq(d0, 3, Len(d0)) ELSE d0
        d2 == IF Len(d1) >= 1 /\ d1[1] = "0" /\ Len(d1) > 8
              THEN StripLeadingZeros(d1) ELSE d1
    IN  IF input = <<>> THEN [ok |-> FALSE, digits |-> <<>>, e164 |-> <<>>]
        ELSE [ok |-> Len(d2) >= 7, digits |-> d2, e164 |-> <<"+">> \o d2]

\* parsePhone(input): ok = FALSE when it throws, else {digits, e164}
parsePhone(input) ==
    LET d0 == SelectSeq(input, IsDigit)
        d1 == IF Len(d0) >= 2 /\ d0[1] = "0" /\ d0[2] = "0"
              THEN SubSeq(d0, 3, Len(d0)) ELSE d0
        d2 == IF Len(d1) >= 1 /\ d1[1] = "0" /\ Len(d1) > 8
              THEN StripLeadingZeros(d1) ELSE d1
    IN  IF input = <<>> THEN [ok |-> FALSE, digits |-> <<>>, e164 |-> <<>>]
        ELSE [ok |-> Len(d2) >= 8, digits |-> d2, e164 |-> <<"+">> \o d2]

\* the parser applied to the input under test
ParsePhone ==
    /\ pureCall.fn = "parsePhone" /\ ~pureCall.done
    /\ pureCall' = [pureCall EXCEPT !.done = TRUE, !.result = parsePhone(pureCall.arg)]
    /\ UNCHANGED <<sessVars, sendVars, pushVars>>

PhoneOk == <<"+", "2", "1", "2", "6", "1", "2", "3", "4", "5", "6", "7", "8">>
PhoneBad == <<"1", "2", "3">>
NoPhone == <<>>
Phones == {PhoneOk, PhoneBad}

(***************************************************************************)
(* Quota ledger over the users store.                                      *)
(***************************************************************************)
NoUser == [exists |-> FALSE, quotaLimit |-> 0, quotaUsed |-> 0]
\* no quota figures (the `quota` of a response that carries none)
NoQuota == [limit |-> -1, used |-> -1, remaining |-> -1]

Max(a, b) == IF a >= b THEN a ELSE b

\* getQuotaInfo(user): Number(user?.quotaLimit || FREE_QUOTA), Number(user?.quotaUsed || 0)
getQuotaInfo(user) ==
    LET limit == IF user.exists /\ user.quotaLimit # 0 THEN user.quotaLimit ELSE FREE_QUOTA
        used == IF user.exists THEN user.quotaUsed ELSE 0
    IN  [limit |-> limit, used |-> used, remaining |-> Max(limit - used, 0)]

\* ensureQuota(user, needed) does not throw
ensureQuota(user, needed) == getQuotaInfo(user).remaining >= needed

\* mutant of consumeQuota: the re-validation (ensureQuota) is left out
consumeQuotaNoRecheck(us, k, count) ==
    IF ~us[k].exists THEN [code |-> "USER_NOT_FOUND", users |-> us]
    ELSE [code |-> "ok",
          users |-> [us EXCEPT ![k] =
              [exists |-> TRUE,
               quotaLimit |-> IF us[k].quotaLimit # 0 THEN us[k].quotaLimit ELSE FREE_QUOTA,
               quotaUsed |-> us[k].quotaUsed + count]]]

\* consumeQuota(userId, count): the thrown code, or "ok" and the store written
consumeQuota(us, k, count) ==
    IF ~us[k].exists THEN [code |-> "USER_NOT_FOUND", users |-> us]
    ELSE IF ~ensureQuota(us[k], count) THEN [code |-> "QUOTA_EXCEEDED", users |-> us]
    ELSE [code |-> "ok",
          users |-> [us EXCEPT ![k] =
              [exists |-> TRUE,
               quotaLimit |-> IF us[k].quotaLimit # 0 THEN us[k].quotaLimit ELSE FREE_QUOTA,
               quotaUsed |-> us[k].quotaUsed + count]]]

\* credit packs of POST /api/credits/buy
PackSmall == 50
PackMedium == 200
PackLarge == 1000
Packs == {PackSmall, PackMedium, PackLarge}

\* mutant of buyCredits: the purchase is added to the free quota, not to the
\* stored limit
buyCreditsFromFree(us, k, increment) ==
    [us EXCEPT ![k].quotaLimit = FREE_QUOTA + increment]

\* POST /api/credits/buy: quotaLimit = Number(user.quotaLimit || FREE_QUOTA) + increment
buyCredits(us, k, increment) ==
    [us EXCEPT ![k].quotaLimit =
        (IF us[k].quotaLimit # 0 THEN us[k].quotaLimit ELSE FREE_QUOTA) + increment]

BuyCredits(k, increment) ==
    /\ users[k].exists
    /\ audit[k].grants < MaxGrants
    /\ users' = buyCredits(users, k, increment)
    /\ audit' = [audit EXCEPT ![k].grants = @ + 1, ![k].granted = @ + increment]
    /\ UNCHANGED <<sessVars, sp>>
    /\ UNCHANGED pushVars
    /\ UNCHANGED pureCall

\* an optional number of a request body: <<>> when absent, <<n>> when given
Absent == <<>>
Given(x) == x # Absent

\* POST /api/admin/users/quota, the record written: quotaLimit and quotaUsed are
\* set when given, then addCredits is added to Number(next.quotaLimit || 0)
adminQuota(user, quotaLimit, quotaUsed, addCredits) ==
    LET n1 == IF Given(quotaLimit) THEN [user EXCEPT !.quotaLimit = quotaLimit[1]] ELSE user
        n2 == IF Given(quotaUsed) THEN [n1 EXCEPT !.quotaUsed = quotaUsed[1]] ELSE n1
    IN  IF Given(addCredits) THEN [n2 EXCEPT !.quotaLimit = @ + addCredits[1]] ELSE n2

\* the route, called by an admin for an existing user; a call that gives
\* addCredits alone is a top-up (a grant)
AdminQuota(k, quotaLimit, quotaUsed, addCredits) ==
    /\ users[k].exists
    /\ audit[k].edits < MaxEdits
    /\ users' = [users EXCEPT ![k] = adminQuota(users[k], quotaLimit, quotaUsed, addCredits)]
    /\ audit' = [audit EXCEPT
           ![k].edits = @ + 1,
           ![k].grants = IF Given(addCredits) /\ ~Given(quotaLimit) /\ ~Given(quotaUsed)
                         THEN @ + 1 ELSE @,
           ![k].granted = IF Given(addCredits) /\ ~Given(quotaLimit) /\ ~Given(quotaUsed)
                          THEN @ + addCredits[1] ELSE @]
    /\ UNCHANGED <<sessVars, sp, pushVars, pureCall>>

\* DELETE /api/admin/users/:id, called by an admin for an existing user: the
\* record is spliced out of the store
AdminDelete(k) ==
    /\ users[k].exists
    /\ users' = [users EXCEPT ![k] = NoUser]
    /\ UNCHANGED <<sessVars, sp, audit, pushVars, pureCall>>

(***************************************************************************)
(* Send pipeline.  A request p is at pc "idle" (not issued), suspended at  *)
(* "resolve" (getNumberId), "media" (MessageMedia.fromUrl), "send"         *)
(* (sendMessage) or "delay" (the bulk loop's setTimeout), or "done".       *)
(***************************************************************************)
\* SPEED_DELAYS, milliseconds
DelaySlow == 5000
DelayNormal == 2000
DelayFast == 350
\* speed of a request body that names none
NoSpeed == "undefined"
\* names every object inherits from Object.prototype: SPEED_DELAYS[name] is
\* then a function, which is truthy and for which `delay > 0` is false
InheritedNames == {"constructor", "toString"}

\* the time the bulk loop waits after a recipient:
\* delay = SPEED_DELAYS[speed] || SPEED_DELAYS.normal, with speed = "normal"
\* when undefined; the timer is set only if (delay > 0)
speedDelay(speed) ==
    IF speed = NoSpeed THEN DelayNormal
    ELSE IF speed = "slow" THEN DelaySlow
    ELSE IF speed = "normal" THEN DelayNormal
    ELSE IF speed = "fast" THEN DelayFast
    ELSE IF speed \in InheritedNames THEN 0
    ELSE DelayNormal

\* waited: the pauses the bulk loop has made, milliseconds (history)
IdleSend == [pc |-> "idle", kind |-> "none", key |-> "k1", phone |-> NoPhone,
             chatId |-> "none", media |-> "none", numbers |-> <<>>, idx |-> 0,
             report |-> <<>>, client |-> NoHandle, usedMedia |-> FALSE,
             last |-> "none", result |-> "none", quota |-> NoQuota, calls |-> 0,
             speed |-> NoSpeed, waited |-> <<>>]

\* mutant of requireReadyClientFor: an authenticated session passes too
requireReadyLoose(k) ==
    /\ whatsappClients[k] # NoHandle
    /\ getSessionState(sessionStates, k).status \in {"connected", "authenticated"}

\* requireReadyClientFor(key) does not throw
requireReadyClientFor(k) ==
    /\ whatsappClients[k] # NoHandle
    /\ getSessionState(sessionStates, k).status = "connected"

\* what a request body carries: no attachment, mediaUrl, an inline media
\* payload, or both
Attachments == {"none", "url", "inline", "both"}

\* the attachment buildMedia makes for one recipient's send: the inline payload
\* if the send is given one, else the remote URL if given one.  The bulk loop
\* gives sendSingleMessageFor the mediaUrl only.
attemptMedia(proc) ==
    IF proc.kind = "bulk" THEN (IF proc.media \in {"url", "both"} THEN "url" ELSE "none")
    ELSE IF proc.media \in {"inline", "both"} THEN "inline"
    ELSE proc.media

\* the quota figures a response carries: the `quota` of a success, and of a
\* QUOTA_EXCEEDED error the figures read from the store `us`
figures(code, us, k) ==
    IF code \in {"ok", "QUOTA_EXCEEDED"} THEN getQuotaInfo(us[k]) ELSE NoQuota

\* the request as a whole returns ("ok") or throws `code` to its caller
Reject(proc, code, us) ==
    [proc EXCEPT !.pc = "done", !.result = code, !.quota = figures(code, us, proc.key)]

\* mutant of Finish: a failed recipient ends the campaign
FinishAborting(proc, code, us) ==
    IF proc.kind = "bulk"
    THEN [proc EXCEPT !.pc = IF code = "ok" THEN "delay" ELSE "done",
              !.last = code,
              !.result = IF code = "ok" THEN @ ELSE code,
              !.report = Append(@, [phone |-> proc.phone,
                                    status |-> IF code = "ok" THEN "sent" ELSE "failed",
                                    code |-> code,
                                    media |-> code = "ok" /\ proc.usedMedia])]
    ELSE [proc EXCEPT !.pc = "done", !.last = code, !.result = code,
                      !.quota = figures(code, us, proc.key)]

\* one recipient's send ended with `code` ("ok" or the error thrown):
\* single and reply return or throw it, the bulk loop records the entry
\* and goes on to its delay
Finish(proc, code, us) ==
    IF proc.kind = "bulk"
    THEN [proc EXCEPT !.pc = "delay", !.last = code,
              !.report = Append(@, [phone |-> proc.phone,
                                    status |-> IF code = "ok" THEN "sent" ELSE "failed",
                                    code |-> code,
                                    media |-> code = "ok" /\ proc.usedMedia])]
    ELSE [proc EXCEPT !.pc = "done", !.last = code, !.result = code,
                      !.quota = figures(code, us, proc.key)]

\* whatsappClient.sendMessage(...) is called
dispatch(proc, withMedia) ==
    [proc EXCEPT !.pc = "send", !.usedMedia = withMedia, !.calls = @ + 1]

\* buildMedia and the call of sendMessage, once the target chat is known
afterTarget(proc) ==
    IF attemptMedia(proc) = "url"
    THEN [proc EXCEPT !.pc = "media", !.calls = @ + 1]
    ELSE dispatch(proc, attemptMedia(proc) = "inline")

\* resolveChatIdFor(key, phone) up to `await whatsappClient.getNumberId(digits)`
resolveChatIdFor(proc) ==
    IF ~requireReadyClientFor(proc.key) THEN Finish(proc, "SESSION_NOT_READY", users)
    ELSE IF ~parsePhone(proc.phone).ok THEN Finish(proc, "INVALID_PHONE", users)
    ELSE [proc EXCEPT !.pc = "resolve", !.calls = @ + 1]

\* mutant of sendSingleMessageFor: the readiness check comes before the quota check
sendSingleReadyFirst(proc) ==
    IF ~users[proc.key].exists THEN Finish(proc, "USER_NOT_FOUND", users)
    ELSE IF ~requireReadyClientFor(proc.key) THEN Finish(proc, "SESSION_NOT_READY", users)
    ELSE IF ~ensureQuota(users[proc.key], 1) THEN Finish(proc, "QUOTA_EXCEEDED", users)
    ELSE resolveChatIdFor([proc EXCEPT !.client = whatsappClients[proc.key],
                                       !.usedMedia = FALSE])

\* sendSingleMessageFor(key, {phone, ...}) up to its first await
sendSingleMessageFor(proc) ==
    IF ~users[proc.key].exists THEN Finish(proc, "USER_NOT_FOUND", users)
    ELSE IF ~ensureQuota(users[proc.key], 1) THEN Finish(proc, "QUOTA_EXCEEDED", users)
    ELSE IF ~requireReadyClientFor(proc.key) THEN Finish(proc, "SESSION_NOT_READY", users)
    ELSE resolveChatIdFor([proc EXCEPT !.client = whatsappClients[proc.key],
                                       !.usedMedia = FALSE])

\* mutant of sendReplyFor: the phone is resolved even when a chatId is given
sendReplyPhoneFirst(proc) ==
    IF ~users[proc.key].exists THEN Finish(proc, "USER_NOT_FOUND", users)
    ELSE IF ~ensureQuota(users[proc.key], 1) THEN Finish(proc, "QUOTA_EXCEEDED", users)
    ELSE IF ~requireReadyClientFor(proc.key) THEN Finish(proc, "SESSION_NOT_READY", users)
    ELSE LET q == [proc EXCEPT !.client = whatsappClients[proc.key]]
         IN  IF q.phone # NoPhone THEN resolveChatIdFor(q)
             ELSE IF q.chatId # "none" THEN afterTarget(q)
             ELSE Finish(q, "MISSING_TARGET", users)

\* sendReplyFor(key, {chatId, phone, ...}) up to its first await
sendReplyFor(proc) ==
    IF ~users[proc.key].exists THEN Finish(proc, "USER_NOT_FOUND", users)
    ELSE IF ~ensureQuota(users[proc.key], 1) THEN Finish(proc, "QUOTA_EXCEEDED", users)
    ELSE IF ~requireReadyClientFor(proc.key) THEN Finish(proc, "SESSION_NOT_READY", users)
    ELSE LET q == [proc EXCEPT !.client = whatsappClients[proc.key]]
         IN  IF q.chatId # "none" THEN afterTarget(q)
             ELSE IF q.phone # NoPhone THEN resolveChatIdFor(q)
             ELSE Finish(q, "MISSING_TARGET", users)

\* mutant of sendBulkMessagesFor: the readiness check comes before the quota check
sendBulkReadyFirst(proc) ==
    IF ~users[proc.key].exists THEN Reject(proc, "USER_NOT_FOUND", users)
    ELSE IF ~requireReadyClientFor(proc.key) THEN Reject(proc, "SESSION_NOT_READY", users)
    ELSE IF getQuotaInfo(users[proc.key]).remaining < Len(proc.numbers)
         THEN Reject(proc, "QUOTA_EXCEEDED", users)
    ELSE sendSingleMessageFor([proc EXCEPT !.idx = 1, !.phone = proc.numbers[1]])

\* sendBulkMessagesFor(key, {numbers, ...}) up to its first await
sendBulkMessagesFor(proc) ==
    IF ~users[proc.key].exists THEN Reject(proc, "USER_NOT_FOUND", users)
    ELSE IF getQuotaInfo(users[proc.key]).remaining < Len(proc.numbers)
         THEN Reject(proc, "QUOTA_EXCEEDED", users)
    ELSE IF ~requireReadyClientFor(proc.key) THEN Reject(proc, "SESSION_NOT_READY", users)
    ELSE sendSingleMessageFor([proc EXCEPT !.idx = 1, !.phone = proc.numbers[1]])

\* POST /api/messages/send
SendSingle(p, k, phone, media) ==
    /\ sp[p].pc = "idle"
    /\ sp' = [sp EXCEPT ![p] = sendSingleMessageFor(
                 [IdleSend EXCEPT !.kind = "single", !.key = k,
                                  !.phone = phone, !.media = media])]
    /\ UNCHANGED <<sessVars, users, audit>>
    /\ UNCHANGED pushVars
    /\ UNCHANGED pureCall

\* POST /api/messages/reply
SendReply(p, k, chatId, phone, media) ==
    /\ sp[p].pc = "idle"
    /\ sp' = [sp EXCEPT ![p] = sendReplyFor(
                 [IdleSend EXCEPT !.kind = "reply", !.key = k, !.chatId = chatId,
                                  !.phone = phone, !.media = media])]
    /\ UNCHANGED <<sessVars, users, audit>>
    /\ UNCHANGED pushVars
    /\ UNCHANGED pureCall

\* POST /api/messages/bulk
SendBulkAtSpeed(p, k, numbers, media, speed) ==
    /\ sp[p].pc = "idle"
    /\ numbers # <<>>
    /\ sp' = [sp EXCEPT ![p] = sendBulkMessagesFor(
                 [IdleSend EXCEPT !.kind = "bulk", !.key = k, !.speed = speed,
                                  !.numbers = numbers, !.media = media])]
    /\ UNCHANGED <<sessVars, users, audit>>
    /\ UNCHANGED pushVars
    /\ UNCHANGED pureCall

\* POST /api/messages/bulk with no speed in the body
SendBulk(p, k, numbers, media) == SendBulkAtSpeed(p, k, numbers, media, NoSpeed)

\* getNumberId settled: a number id, null (not registered), or a rejection
ResolveSettled(p) ==
    /\ sp[p].pc = "resolve"
    /\ \E answer \in {"found", "null", "throw"} :
          sp' = [sp EXCEPT ![p] =
                    IF answer = "found" THEN afterTarget(sp[p])
                    ELSE IF answer = "null" THEN Finish(sp[p], "NOT_WHATSAPP_USER", users)
                    ELSE Finish(sp[p], "PROVIDER_ERROR", users)]
    /\ UNCHANGED <<sessVars, users, audit>>
    /\ UNCHANGED pushVars
    /\ UNCHANGED pureCall

\* MessageMedia.fromUrl settled
MediaSettled(p) ==
    /\ sp[p].pc = "media"
    /\ \E fetched \in BOOLEAN :
          sp' = [sp EXCEPT ![p] =
                    IF fetched THEN dispatch(sp[p], TRUE)
                    ELSE Finish(sp[p], "MEDIA_FETCH_FAILED", users)]
    /\ UNCHANGED <<sessVars, users, audit>>
    /\ UNCHANGED pushVars
    /\ UNCHANGED pureCall

\* sendMessage settled: on success consumeQuota(key, 1), whose throw is the
\* send's outcome; on rejection the provider's error is
SendSettled(p) ==
    /\ sp[p].pc = "send"
    /\ \E accepted \in BOOLEAN :
          IF accepted
          THEN LET c == consumeQuota(users, sp[p].key, 1)
               IN  /\ users' = c.users
                   /\ sp' = [sp EXCEPT ![p] = Finish(sp[p], c.code, c.users)]
                   /\ audit' = [audit EXCEPT
                          ![sp[p].key].accepted = @ + 1,
                          ![sp[p].key].consumed = IF c.code = "ok" THEN @ + 1 ELSE @]
          ELSE /\ sp' = [sp EXCEPT ![p] = Finish(sp[p], "PROVIDER_ERROR", users)]
               /\ UNCHANGED <<users, audit>>
    /\ UNCHANGED sessVars
    /\ UNCHANGED pushVars
    /\ UNCHANGED pureCall

\* the bulk loop's pause is over (with no timer set, the loop goes on at once):
\* the next recipient, or after the last one
\* requireUserById(key) and the return of {report, quota}
DelaySettled(p) ==
    /\ sp[p].pc = "delay"
    /\ LET proc == [sp[p] EXCEPT !.waited = Append(@, speedDelay(sp[p].speed))]
       IN  sp' = [sp EXCEPT ![p] =
                 IF proc.idx < Len(proc.numbers)
                 THEN sendSingleMessageFor([proc EXCEPT !.idx = @ + 1,
                                               !.phone = proc.numbers[proc.idx + 1]])
                 ELSE IF users[proc.key].exists THEN Reject(proc, "ok", users)
                 ELSE Reject(proc, "USER_NOT_FOUND", users)]
    /\ UNCHANGED <<sessVars, users, audit>>
    /\ UNCHANGED pushVars
    /\ UNCHANGED pureCall

(***************************************************************************)
(* Inputs of the requests.                                                 *)
(***************************************************************************)
\* campaigns of 1 .. MaxBulk recipients: all well-formed, or the second malformed
Campaign(n, bad) == [i \in 1 .. n |-> IF bad /\ i = 2 THEN PhoneBad ELSE PhoneOk]
BulkLists == {Campaign(n, bad) : n \in 1 .. MaxBulk, bad \in BOOLEAN}

\* a reply names a chat, or a phone, or both, or neither
ReplyTargets == {<<"chat", NoPhone>>, <<"none", PhoneOk>>, <<"chat", PhoneOk>>,
                 <<"none", NoPhone>>}

\* requests are issued in the order of their numbers
NextToIssue(p) == \A q \in SProcs : q < p => sp[q].pc # "idle"
Concurrent == 1 .. MaxConcurrent

\* one campaign per user at a time; single sends and replies run beside it
NoCampaign == \A q \in SProcs : sp[q].kind # "bulk"

(***************************************************************************)
(* Specification of the session registry, one key.                         *)
(***************************************************************************)
NoAudit == [accepted |-> 0, consumed |-> 0, grants |-> 0, granted |-> 0, limit0 |-> 0,
            edits |-> 0]

\* no pure function is under test
NoCall == [fn |-> "none", arg |-> <<>>, done |-> FALSE, result |-> <<>>]

\* the registries are empty at start-up
InitRegistry ==
    /\ sessionStates = [k \in Keys |-> NoState]
    /\ whatsappClients = [k \in Keys |-> NoHandle]
    /\ handles = [h \in Handles |-> [key |-> "k1", phase |-> "unbuilt"]]
    /\ timers = [h \in Handles |-> 0]
    /\ pendingQr = [k \in Keys |-> 0]
    /\ rp = [r \in RProcs |-> IdleProc]
    /\ sp = [p \in SProcs |-> IdleSend]
    /\ sessionEmitters = [k \in Keys |-> NoEmitter]
    /\ sessionStreams = [s \in Subs |-> NoStream]
    /\ inboxEmitter = [listeners |-> {}, emitted |-> <<>>]
    /\ inboxMessages = <<>>
    /\ inboxStreams = [s \in Subs |-> NoStream]
    /\ inboxReply = NoReply

\* the acting user as signup stores it: quotaLimit FREE_QUOTA, quotaUsed 0
Init ==
    /\ InitRegistry
    /\ users = [k \in Keys |-> IF k \in OneKey
                     THEN [exists |-> TRUE, quotaLimit |-> FREE_QUOTA, quotaUsed |-> 0]
                     ELSE NoUser]
    /\ audit = [k \in Keys |-> [NoAudit EXCEPT !.limit0 = getQuotaInfo(users[k]).limit]]
    /\ pureCall = NoCall

NextSession ==
    \/ \E k \in OneKey : Ensure(k)
    \/ \E h \in Handles : OnQr(h)
    \/ \E k \in OneKey : QrEncoded(k)
    \/ \E h \in Handles : OnLoadingScreen(h)
    \/ \E h \in Handles : OnAuthenticated(h)
    \/ \E h \in Handles : OnReady(h)
    \/ \E h \in Handles : OnAuthFailure(h)
    \/ \E h \in Handles : OnDisconnected(h)
    \/ \E h \in Handles : TimerFire(h)
    \/ \E r \in RProcs, k \in OneKey : RestartBegin(r, k)
    \/ \E r \in RProcs : RestartFinish(r)
    \/ \E r \in RProcs, k \in OneKey : LogoutBegin(r, k)
    \/ \E r \in RProcs : LogoutSettled(r)

SpecSession == Init /\ [][NextSession]_vars

(***************************************************************************)
(* Specification of the readiness guard: the whole session life cycle of   *)
(* one key with one restart or logout at a time, and one send request      *)
(* (single, reply to a chat, or a campaign of one) issued at any moment.   *)
(***************************************************************************)
NextGuard ==
    \/ \E k \in OneKey : Ensure(k)
    \/ \E h \in Handles : OnQr(h)
    \/ \E k \in OneKey : QrEncoded(k)
    \/ \E h \in Handles : OnLoadingScreen(h)
    \/ \E h \in Handles : OnAuthenticated(h)
    \/ \E h \in Handles : OnReady(h)
    \/ \E h \in Handles : OnAuthFailure(h)
    \/ \E h \in Handles : OnDisconnected(h)
    \/ \E h \in Handles : TimerFire(h)
    \/ \E k \in OneKey : RestartBegin(1, k)
    \/ RestartFinish(1)
    \/ \E k \in OneKey : LogoutBegin(1, k)
    \/ LogoutSettled(1)
    \/ \E k \in OneKey : SendSingle(1, k, PhoneOk, "none")
    \/ \E k \in OneKey : SendReply(1, k, "chat", NoPhone, "none")
    \/ \E k \in OneKey : SendBulk(1, k, Campaign(1, FALSE), "none")
    \/ ResolveSettled(1)
    \/ SendSettled(1)
    \/ DelaySettled(1)

SpecGuard == Init /\ [][NextGuard]_vars

(***************************************************************************)
(* Specification of the send pipeline: one user, whose stored quotaLimit   *)
(* is a small number (0: the field is unset and reads as FREE_QUOTA), and  *)
(* a session that connects and disconnects.                                *)
(***************************************************************************)
InitSend ==
    /\ InitRegistry
    /\ \E limit \in 0 .. MaxLimit :
          users = [k \in Keys |-> IF k \in OneKey
                      THEN [exists |-> TRUE, quotaLimit |-> limit, quotaUsed |-> 0]
                      ELSE NoUser]
    /\ audit = [k \in Keys |-> [NoAudit EXCEPT !.limit0 = getQuotaInfo(users[k]).limit]]
    /\ pureCall = NoCall

NextSend ==
    \/ \E k \in OneKey : Ensure(k)
    \/ \E h \in Handles : OnAuthenticated(h)
    \/ \E h \in Handles : OnReady(h)
    \/ \E h \in Handles : OnDisconnected(h)
    \/ \E p \in Concurrent, k \in OneKey, phone \in Phones, media \in {"none", "url"} :
          NextToIssue(p) /\ SendSingle(p, k, phone, media)
    \/ \E p \in Concurrent, k \in OneKey, target \in ReplyTargets :
          NextToIssue(p) /\ SendReply(p, k, target[1], target[2], "none")
    \/ \E p \in Concurrent, k \in OneKey, numbers \in BulkLists :
          NextToIssue(p) /\ NoCampaign /\ SendBulk(p, k, numbers, "none")
    \/ \E p \in Concurrent : ResolveSettled(p)
    \/ \E p \in Concurrent : MediaSettled(p)
    \/ \E p \in Concurrent : SendSettled(p)
    \/ \E p \in Concurrent : DelaySettled(p)
    \/ \E k \in OneKey : BuyCredits(k, PackSmall)

SpecSend == InitSend /\ [][NextSend]_vars

(***************************************************************************)
(* Specification of a campaign beside single sends: every request slot is  *)
(* used, the recipients are well-formed and the session stays connected.   *)
(***************************************************************************)
NextCampaign ==
    \/ \E k \in OneKey : Ensure(k)
    \/ \E h \in Handles : OnAuthenticated(h)
    \/ \E h \in Handles : OnReady(h)
    \/ \E p \in SProcs, k \in OneKey :
          NextToIssue(p) /\ SendSingle(p, k, PhoneOk, "none")
    \/ \E p \in SProcs, k \in OneKey, n \in 1 .. MaxBulk :
          NextToIssue(p) /\ NoCampaign /\ SendBulk(p, k, Campaign(n, FALSE), "none")
    \/ \E p \in SProcs : ResolveSettled(p)
    \/ \E p \in SProcs : SendSettled(p)
    \/ \E p \in SProcs : DelaySettled(p)

SpecCampaign == InitSend /\ [][NextCampaign]_vars

(***************************************************************************)
(* Specification of the session-state stream: two keys, subscriptions      *)
(* opened and closed at any moment of the session life cycle.              *)
(***************************************************************************)
\* subscriptions are opened in the order of their numbers
NextSession1(s) == \A t \in Subs : t < s => sessionStreams[t].pc # "none"
\* no emitter has emitted MaxEmitted updates yet
CanEmit == \A k \in Keys : Len(sessionEmitters[k].emitted) < MaxEmitted

NextEvents ==
    \/ \E s \in Subs, k \in Keys : NextSession1(s) /\ SubscribeSession(s, k)
    \/ \E s \in Subs : CloseSession(s)
    \/ \E k \in OneKey : Ensure(k)
    \/ \E h \in Handles : CanEmit /\ OnAuthenticated(h)
    \/ \E h \in Handles : CanEmit /\ OnReady(h)
    \/ \E h \in Handles : CanEmit /\ OnDisconnected(h)
    \/ \E h \in Handles : TimerFire(h)

SpecEvents == Init /\ [][NextEvents]_vars

\* the same with subscribers whose response fails
NextIsolation ==
    \/ \E s \in Subs, k \in Keys : NextSession1(s) /\ SubscribeSession(s, k)
    \/ \E s \in Subs : CloseSession(s)
    \/ \E s \in Subs : BreakSession(s)
    \/ \E k \in OneKey : Ensure(k)
    \/ \E h \in Handles : CanEmit /\ OnAuthenticated(h)
    \/ \E h \in Handles : CanEmit /\ OnReady(h)
    \/ \E h \in Handles : CanEmit /\ OnDisconnected(h)
    \/ \E h \in Handles : TimerFire(h)

SpecIsolation == Init /\ [][NextIsolation]_vars

(***************************************************************************)
(* Specification of the inbox: two keys with a connected handle each,      *)
(* inbound messages, stream subscriptions and pull queries.                *)
(***************************************************************************)
NextInbox1(s) == \A t \in Subs : t < s => inboxStreams[t].pc # "none"
\* the limits asked for: none, or a number
Limits == {NoLimit} \cup {<<n>> : n \in -1 .. MAX_INBOX_MESSAGES}

NextInbox ==
    \/ \E s \in Subs, k \in Keys : NextInbox1(s) /\ SubscribeInbox(s, k)
    \/ \E s \in Subs : CloseInbox(s)
    \/ \E k \in Keys : Ensure(k)
    \/ \E h \in Handles : OnAuthenticated(h)
    \/ \E h \in Handles : OnReady(h)
    \/ \E h \in Handles : OnMessage(h)
    \/ \E k \in Keys, limit \in Limits : PullInbox(k, limit)

SpecInbox == Init /\ [][NextInbox]_vars

(***************************************************************************)
(* Specification of the Phone Normalizer: parsePhone applied to every      *)
(* string of at most MaxPhoneLen characters over a zero, a non-zero digit  *)
(* and a non-digit, and to the examples of the documentation.              *)
(***************************************************************************)
PhoneChars == {"0", "1", "+"}
PhoneIntl == <<"0", "0", "2", "1", "2", "6", "1", "2", "3", "4", "5", "6", "7", "8">>
PhoneLocal == <<"0", "6", "1", "2", "3", "4", "5", "6", "7", "8">>
PhoneZeros == <<"0", "0", "0", "0", "1", "2", "3", "4", "5", "6", "7", "8", "9", "0">>
PhoneInputs ==
    UNION {[1 .. n -> PhoneChars] : n \in 0 .. MaxPhoneLen}
        \cup {PhoneOk, PhoneBad, PhoneIntl, PhoneLocal, PhoneZeros}

InitPhone ==
    /\ InitRegistry
    /\ users = [k \in Keys |-> NoUser]
    /\ audit = [k \in Keys |-> NoAudit]
    /\ \E input \in PhoneInputs :
          pureCall = [fn |-> "parsePhone", arg |-> input, done |-> FALSE, result |-> <<>>]

NextPhone == ParsePhone

SpecPhone == InitPhone /\ [][NextPhone]_vars

(***************************************************************************)
(* Specification of two keys side by side: each is ensured, connects,      *)
(* disconnects and is restarted; one subscription to either key's stream.  *)
(***************************************************************************)
NextKeys ==
    \/ \E k \in Keys : SubscribeSession(1, k)
    \/ \E k \in Keys : Ensure(k)
    \/ \E h \in Handles : CanEmit /\ OnAuthenticated(h)
    \/ \E h \in Handles : CanEmit /\ OnReady(h)
    \/ \E h \in Handles : CanEmit /\ OnDisconnected(h)
    \/ \E h \in Handles : TimerFire(h)
    \/ \E k \in Keys : CanEmit /\ RestartBegin(1, k)
    \/ RestartFinish(1)

SpecKeys == Init /\ [][NextKeys]_vars

(***************************************************************************)
(* Specification of the quota administration: the record of a signed-up    *)
(* user under admin edits, admin top-ups and credit purchases.             *)
(***************************************************************************)
AdminLimits == {Absent, <<0>>, <<1>>}
AdminUsed == {Absent, <<0>>, <<2>>}
AdminCredits == {Absent, <<1>>, <<2>>}

NextAdmin ==
    \/ \E k \in OneKey, l \in AdminLimits, u \in AdminUsed, a \in AdminCredits :
          AdminQuota(k, l, u, a)
    \/ \E k \in OneKey, pack \in Packs : BuyCredits(k, pack)

SpecAdmin == Init /\ [][NextAdmin]_vars

(***************************************************************************)
(* Specification of the pace of a campaign: one campaign at every speed a  *)
(* request can name, some recipients failing.                              *)
(***************************************************************************)
Speeds == {NoSpeed, "slow", "normal", "fast", "turbo"} \cup InheritedNames

NextPace ==
    \/ \E k \in OneKey : Ensure(k)
    \/ \E h \in Handles : OnAuthenticated(h)
    \/ \E h \in Handles : OnReady(h)
    \/ \E k \in OneKey, numbers \in BulkLists, speed \in Speeds :
          SendBulkAtSpeed(1, k, numbers, "none", speed)
    \/ ResolveSettled(1)
    \/ SendSettled(1)
    \/ DelaySettled(1)

SpecPace == Init /\ [][NextPace]_vars

(***************************************************************************)
(* Specification of repeated signals: one handle per key, every lifecycle  *)
(* signal, each of which the provider may deliver again; a repeated        *)
(* disconnected signal arms a timer of its own.                            *)
(***************************************************************************)
NextDuplicate ==
    \/ \E k \in Keys : Ensure(k)
    \/ \E h \in Handles : OnQr(h)
    \/ \E k \in Keys : QrEncoded(k)
    \/ \E h \in Handles : OnLoadingScreen(h)
    \/ \E h \in Handles : OnAuthenticated(h)
    \/ \E h \in Handles : OnReady(h)
    \/ \E h \in Handles : OnAuthFailure(h)
    \/ \E h \in Handles : OnDisconnectedWithin(h, MaxRepeats)
    \/ \E h \in Handles : TimerFire(h)

SpecDuplicate == Init /\ [][NextDuplicate]_vars

(***************************************************************************)
(* Specification of attachments: one request at a time, a single send or a *)
(* campaign, with every kind of attachment a request body can carry.       *)
(***************************************************************************)
NextAttach ==
    \/ \E k \in OneKey : Ensure(k)
    \/ \E h \in Handles : OnAuthenticated(h)
    \/ \E h \in Handles : OnReady(h)
    \/ \E k \in OneKey, phone \in Phones, media \in Attachments :
          SendSingle(1, k, phone, media)
    \/ \E k \in OneKey, numbers \in BulkLists, media \in Attachments :
          SendBulk(1, k, numbers, media)
    \/ ResolveSettled(1)
    \/ MediaSettled(1)
    \/ SendSettled(1)
    \/ DelaySettled(1)

SpecAttach == InitSend /\ [][NextAttach]_vars

(***************************************************************************)
(* Specification of a campaign whose user an admin may delete at any       *)
(* moment: one campaign, recipients well-formed or not.                    *)
(***************************************************************************)
NextDelete ==
    \/ \E k \in OneKey : Ensure(k)
    \/ \E h \in Handles : OnAuthenticated(h)
    \/ \E h \in Handles : OnReady(h)
    \/ \E k \in OneKey, numbers \in BulkLists : SendBulk(1, k, numbers, "none")
    \/ ResolveSettled(1)
    \/ SendSettled(1)
    \/ DelaySettled(1)
    \/ \E k \in OneKey : AdminDelete(k)

SpecDelete == InitSend /\ [][NextDelete]_vars

(***************************************************************************)
(* Properties.                                                             *)
(***************************************************************************)
LiveHandles(k) == {h \in Handles : handles[h].key = k /\ handles[h].phase \in LivePhases}
Remaining(k) == getQuotaInfo(users[k]).remaining
Issued(p) == sp[p].pc = "idle" /\ sp'[p].pc # "idle"

\* C1: at every instant at most one handle of a key is built and not yet
\* torn down (the replaced handle is released before the new one is built).
C1_AtMostOneLiveHandle == \A k \in Keys : Cardinality(LiveHandles(k)) <= 1

\* C2: a handle whose teardown is pending (restart awaits its destroy) is never
\* re-initialized by the disconnected handler's timer.
C2_TornDownHandleNotReinitialized ==
    [][\A h \in Handles : handles[h].phase = "closing"
            => handles'[h].phase \in {"closing", "destroyed"}]_vars

\* C3: the number of messages the provider accepted for a user never exceeds
\* the user's quota limit (quotaUsed starts at 0, no admin edit).
C3_DispatchedWithinLimit ==
    \A k \in OneKey : audit[k].accepted <= getQuotaInfo(users[k]).limit

\* the stored record keeps quotaUsed within quotaLimit
C4_UsedWithinLimit ==
    \A k \in OneKey : /\ users[k].quotaUsed <= getQuotaInfo(users[k]).limit
                      /\ users[k].quotaUsed <= Max(users[k].quotaLimit, 0)
                      /\ users[k].quotaLimit # 0 \/ users[k].quotaUsed = 0
\* a step in which consumeQuota is called with nothing remaining
C4_RefusedConsumeLeavesRecord ==
    \A p \in SProcs :
        (/\ sp[p].pc = "send" /\ sp'[p].pc # "send"
         /\ audit'[sp[p].key].accepted = audit[sp[p].key].accepted + 1
         /\ Remaining(sp[p].key) < 1)
        => (sp'[p].last = "QUOTA_EXCEEDED" /\ users' = users)
\* C4: quotaUsed never exceeds quotaLimit through consume, and a consume issued
\* when nothing remains fails with QUOTA_EXCEEDED and leaves the record as it is.
C4_ConsumeKeepsWithinLimit ==
    [](C4_UsedWithinLimit) /\ [][C4_RefusedConsumeLeavesRecord]_vars
C4_Witness ==
    \E p \in SProcs : /\ sp[p].kind = "single" /\ sp[p].pc = "done"
                      /\ sp[p].result = "QUOTA_EXCEEDED" /\ sp[p].calls >= 2
                      /\ users[sp[p].key].quotaUsed = users[sp[p].key].quotaLimit

\* C5: no update of the ledger is lost or applied twice: quotaUsed is the number
\* of successful consumes, the limit is the initial limit plus the credits bought.
C5_LedgerExact ==
    \A k \in OneKey :
        /\ users[k].quotaUsed = audit[k].consumed
        /\ getQuotaInfo(users[k]).limit = audit[k].limit0 + audit[k].granted
C5_Witness ==
    /\ \E p, q \in SProcs : p # q /\ sp[p].last = "ok" /\ sp[q].last = "ok"
                            /\ sp[p].kind = "bulk" /\ sp[q].kind = "single"
    /\ audit["k1"].granted > 0 /\ audit["k1"].consumed >= 3

\* a step that issues a campaign longer than the remaining quota
C6_BulkUpfront ==
    \A p \in SProcs :
        (/\ Issued(p) /\ sp'[p].kind = "bulk" /\ users[sp'[p].key].exists
         /\ Remaining(sp'[p].key) < Len(sp'[p].numbers))
        => /\ sp'[p].pc = "done" /\ sp'[p].result = "QUOTA_EXCEEDED"
           /\ sp'[p].quota = [limit |-> getQuotaInfo(users[sp'[p].key]).limit,
                              used |-> users[sp'[p].key].quotaUsed,
                              remaining |-> Remaining(sp'[p].key)]
           /\ sp'[p].calls = 0 /\ sp'[p].report = <<>>
           /\ users' = users /\ audit' = audit
\* C6: a campaign longer than the remaining quota is rejected as a whole, before
\* the readiness check: QUOTA_EXCEEDED with the current figures, no provider
\* call, no report entry, the ledger untouched.
C6_BulkRejectedUpfront == [][C6_BulkUpfront]_vars
C6_Witness ==
    \E p \in SProcs : /\ sp[p].kind = "bulk" /\ sp[p].pc = "done"
                      /\ sp[p].result = "QUOTA_EXCEEDED" /\ Len(sp[p].numbers) = 3
                      /\ sp[p].quota.remaining = 2 /\ sp[p].report = <<>>
                      /\ ~requireReadyClientFor(sp[p].key)

\* C7: a campaign that passed the upfront checks returns one entry per
\* recipient, in input order, each sent or failed; a failed recipient does not
\* stop the later ones.
C7_BulkReportComplete ==
    \A p \in SProcs : sp[p].kind = "bulk" =>
        /\ Len(sp[p].report) <= Len(sp[p].numbers)
        /\ \A i \in 1 .. Len(sp[p].report) :
              /\ sp[p].report[i].phone = sp[p].numbers[i]
              /\ sp[p].report[i].status \in {"sent", "failed"}
        /\ (sp[p].pc = "done" /\ sp[p].idx >= 1)
              => (sp[p].result = "ok" /\ Len(sp[p].report) = Len(sp[p].numbers))
        /\ (sp[p].pc = "done" /\ sp[p].idx = 0) => sp[p].report = <<>>
C7_Witness ==
    \E p \in SProcs : /\ sp[p].kind = "bulk" /\ sp[p].pc = "done" /\ sp[p].result = "ok"
                      /\ Len(sp[p].report) = 3
                      /\ sp[p].report[1].status = "sent"
                      /\ sp[p].report[2].status = "failed"
                      /\ sp[p].report[2].code = "NOT_WHATSAPP_USER"
                      /\ sp[p].report[3].status = "sent"

\* C8: once a recipient of a campaign fails with QUOTA_EXCEEDED the campaign
\* stops: no later recipient is attempted or recorded.
C8_QuotaExceededStopsCampaign ==
    \A p \in SProcs : \A i \in 1 .. Len(sp[p].report) :
        sp[p].report[i].code = "QUOTA_EXCEEDED"
            => (i = Len(sp[p].report) /\ sp[p].pc \notin {"resolve", "media", "send"})

\* a step that issues a single send or a reply with nothing remaining
C9_SingleUpfront ==
    \A p \in SProcs :
        (/\ Issued(p) /\ sp'[p].kind \in {"single", "reply"} /\ users[sp'[p].key].exists
         /\ Remaining(sp'[p].key) < 1)
        => /\ sp'[p].pc = "done" /\ sp'[p].result = "QUOTA_EXCEEDED"
           /\ sp'[p].calls = 0 /\ users' = users /\ audit' = audit
\* C9: a single send or reply issued when less than 1 remains fails with
\* QUOTA_EXCEEDED before the readiness check and before any provider call, the
\* ledger untouched, connected or not.
C9_SingleFailsFast == [][C9_SingleUpfront]_vars
C9_Witness ==
    /\ \E p \in SProcs : /\ sp[p].kind \in {"single", "reply"} /\ sp[p].pc = "done"
                         /\ sp[p].result = "QUOTA_EXCEEDED" /\ sp[p].calls = 0
                         /\ sp[p].quota.remaining = 0
    /\ sessionStates["k1"].status = "disconnected"

\* a handle is installed for the key and its status is connected
Connected(k) ==
    whatsappClients[k] # NoHandle /\ sessionStates[k].status = "connected"
\* a step that issues a request the quota allows
C10_Guarded ==
    \A p \in SProcs :
        (/\ Issued(p) /\ users[sp'[p].key].exists
         /\ Remaining(sp'[p].key) >= Max(1, Len(sp'[p].numbers)))
        => /\ (sp'[p].pc = "done" /\ sp'[p].result = "SESSION_NOT_READY")
                <=> ~Connected(sp'[p].key)
           /\ ~Connected(sp'[p].key)
                => (sp'[p].calls = 0 /\ users' = users /\ audit' = audit)
           /\ Connected(sp'[p].key)
                => (sp'[p].calls = 1 /\ sp'[p].client = whatsappClients[sp'[p].key])
\* C10: the readiness guard passes exactly when a handle is installed and
\* the status is connected; otherwise the request fails with SESSION_NOT_READY,
\* makes no provider call and consumes no quota.
C10_RequireConnected == [][C10_Guarded]_vars
C10_Witness ==
    /\ sp[1].pc = "done" /\ sp[1].result = "SESSION_NOT_READY" /\ sp[1].calls = 0
    /\ whatsappClients["k1"] # NoHandle
    /\ sessionStates["k1"].status = "restarting"

\* C11: a single send or reply raises quotaUsed by exactly 1 when, and only
\* when, the provider accepted the message; a call that ends at any other step
\* leaves the stored record unchanged.
C11_QuotaChangesOnlyOnSuccess ==
    [][\A p \in SProcs :
          (sp[p].kind \in {"single", "reply"} /\ sp[p].pc # "done" /\ sp'[p].pc = "done")
          => IF audit'[sp[p].key].accepted = audit[sp[p].key].accepted + 1
             THEN users'[sp[p].key].quotaUsed = users[sp[p].key].quotaUsed + 1
             ELSE users' = users]_vars

\* C12: the pairing payload of a session state is non-null only while the
\* status is qr: every transition away from qr clears it.
C12_QrOnlyWhileStatusQr ==
    \A k \in Keys : sessionStates[k].qr # "null" => sessionStates[k].status = "qr"

\* a step of ensure(key): with a handle installed nothing is built or replaced;
\* with none, exactly one Client is constructed, initialized and installed, and
\* the call returns the current snapshot while that handle is still connecting
C13_EnsureStep ==
    \A k \in Keys : Ensure(k) =>
        /\ sessionStates'[k] = getSessionState(sessionStates, k)
        /\ whatsappClients[k] # NoHandle
              => (handles' = handles /\ whatsappClients' = whatsappClients)
        /\ whatsappClients[k] = NoHandle
              => \E h \in Handles :
                    /\ handles[h].phase = "unbuilt"
                    /\ handles' = [handles EXCEPT ![h] = [key |-> k, phase |-> "init"]]
                    /\ whatsappClients' = [whatsappClients EXCEPT ![k] = h]
\* C13: ensure(key) is idempotent: in any interleaving with provider events,
\* bring-up is triggered exactly once per missing handle, an installed handle is
\* never replaced, and ensure returns without waiting for the connection.
C13_EnsureIdempotent == [][C13_EnsureStep]_vars
C13_Witness ==
    /\ whatsappClients["k1"] = 1 /\ Built = {1}
    /\ handles[1].phase = "pairing" /\ pendingQr["k1"] = 1
    /\ sessionStates["k1"].status = "starting"

\* a step of ensure(key) on a key never referenced before, and the state read
\* right after it; a state that exists is not deleted by any step
C14_FirstAccess ==
    \A k \in Keys :
        /\ (sessionStates[k] = NoState /\ Ensure(k))
              => /\ sessionStates'[k] = [status |-> "starting", qr |-> "null",
                                         lastError |-> "null", updatedAt |-> "now"]
                 /\ getSessionState(sessionStates', k) = sessionStates'[k]
                 /\ sessionStates'[k].updatedAt # "null"
        /\ sessionStates[k] # NoState => sessionStates'[k] # NoState
\* C14: for a key never referenced before, ensure followed by getState returns
\* status starting, null qr, null lastError and a non-null updatedAt; the state
\* is created on first access and never deleted afterwards.
C14_FreshStateOnFirstAccess == [][C14_FirstAccess]_vars
C14_Witness ==
    /\ sessionStates["k1"] = FreshState /\ sessionStates["k1"].updatedAt = "now"
    /\ whatsappClients["k1"] # NoHandle /\ handles[1].phase = "init"
    /\ sessionStates["k2"] = NoState

\* C15: the only transition out of restarting is restarting -> starting, taken
\* once the fresh handle is installed; a session never goes from restarting
\* directly to qr, loading, authenticated, connected, disconnected or auth_failure.
C15_RestartingThenStarting ==
    [][\A k \in Keys : sessionStates[k].status = "restarting"
            => sessionStates'[k].status \in {"restarting", "starting"}]_vars

\* C16: after a disconnected signal that no restart or logout supersedes, the
\* timer re-initializes the handle and the transition taken out of disconnected
\* is disconnected -> starting (restarting only by an explicit restart).
C16_DisconnectedThenStarting ==
    [][\A k \in Keys : sessionStates[k].status = "disconnected"
            => sessionStates'[k].status \in {"disconnected", "starting", "restarting"}]_vars

\* C17: auth_failure is terminal until an explicit restart: once the status of
\* a key is auth_failure no provider signal and no ensure / getState call
\* changes it; only restart (or the restart a logout ends in) moves it on.
C17_AuthFailureTerminal ==
    [][\A k \in Keys : sessionStates[k].status = "auth_failure"
            => sessionStates'[k].status \in {"auth_failure", "restarting"}]_vars

\* what an opened session stream holds: the snapshot, then the updates its
\* key's emitter emitted since the listener was registered, until it was removed
C18_StreamIsSnapshotThenUpdates ==
    \A s \in Subs : sessionStreams[s].pc # "none" =>
        LET st == sessionStreams[s]
            e == sessionEmitters[st.key].emitted
            hi == IF st.pc = "open" THEN Len(e) ELSE st.upto
        IN  /\ Len(st.out) >= 1
            /\ Tail(st.out) = SubSeq(e, st.from + 1, hi)
\* a step that opens a stream writes the state of that moment as the one
\* snapshot; a step that mutates the state of a key with an emitter emits the
\* new state; a closed stream receives nothing
C18_StreamStep ==
    /\ \A s \in Subs : (sessionStreams[s].pc = "none" /\ sessionStreams'[s].pc = "open")
          => /\ sessionStreams'[s].out =
                    <<getSessionState(sessionStates, sessionStreams'[s].key)>>
             /\ sessionStreams'[s].out = <<sessionStates'[sessionStreams'[s].key]>>
             /\ s \in sessionEmitters'[sessionStreams'[s].key].listeners
    /\ \A k \in Keys : (sessionEmitters[k].made /\ sessionStates'[k] # sessionStates[k])
          => sessionEmitters'[k].emitted =
                 Append(sessionEmitters[k].emitted, sessionStates'[k])
    /\ \A s \in Subs : sessionStreams[s].pc = "closed"
          => sessionStreams'[s] = sessionStreams[s]
\* C18: a subscriber of the session topic of key K first receives exactly one
\* snapshot equal to K's state at the moment of subscription, then every later
\* mutation of K's state exactly once and in the order produced, none missed
\* between snapshot and registration, and nothing after it disconnects.
C18_SessionStreamOrdered ==
    [](C18_StreamIsSnapshotThenUpdates) /\ [][C18_StreamStep]_vars
C18_Witness ==
    /\ sessionStreams[1].pc = "open" /\ sessionStreams[1].key = "k1"
    /\ Len(sessionStreams[1].out) = 3
    /\ sessionStreams[1].out[1].status = "starting"
    /\ sessionStreams[1].out[2].status = "authenticated"
    /\ sessionStreams[1].out[3].status = "connected"
    /\ sessionStreams[2].pc = "closed" /\ sessionStreams[2].key = "k1"
    /\ Len(sessionStreams[2].out) = 2
    /\ sessionStreams[2].out[1].status = "authenticated"

\* C19: an inbox-stream subscriber of key K is delivered only entries whose
\* sessionKey is K, each at most once, and only entries that arrive after it
\* subscribed: its stream is exactly the entries of K emitted between its
\* registration and its close, nothing of the history buffer, nothing of
\* other keys.
C19_InboxStreamScoped ==
    \A s \in Subs : inboxStreams[s].pc # "none" =>
        LET st == inboxStreams[s]
            hi == IF st.pc = "open" THEN Len(inboxEmitter.emitted) ELSE st.upto
            ofKey(m) == m.sessionKey = st.key
        IN  /\ st.out = SelectSeq(SubSeq(inboxEmitter.emitted, st.from + 1, hi), ofKey)
            /\ \A i \in 1 .. Len(st.out) :
                  /\ st.out[i].sessionKey = st.key
                  /\ st.out[i].id > st.from
                  /\ \A j \in 1 .. Len(st.out) : i # j => st.out[i].id # st.out[j].id
C19_Witness ==
    /\ inboxStreams[1].pc = "open" /\ inboxStreams[1].key = "k1"
    /\ inboxStreams[1].from = 1
    /\ Len(inboxEmitter.emitted) = 3
    /\ inboxEmitter.emitted[1].sessionKey = "k1"
    /\ inboxEmitter.emitted[2].sessionKey = "k2"
    /\ inboxEmitter.emitted[3].sessionKey = "k1"
    /\ Len(inboxStreams[1].out) = 1 /\ inboxStreams[1].out[1].id = 3

\* the history buffer holds the last MAX_INBOX_MESSAGES entries received,
\* the most recent first
C20_BufferKept ==
    LET n == Len(inboxEmitter.emitted)
        kept == IF n < MAX_INBOX_MESSAGES THEN n ELSE MAX_INBOX_MESSAGES
    IN  /\ Len(inboxMessages) = kept
        /\ \A i \in 1 .. kept : inboxMessages[i] = inboxEmitter.emitted[n - i + 1]
\* the entries of a pull reply are of the key asked for, the most recent first
C20_ReplyScoped ==
    \A i \in 1 .. Len(inboxReply.messages) :
        /\ inboxReply.messages[i].sessionKey = inboxReply.key
        /\ \A j \in 1 .. Len(inboxReply.messages) :
              i < j => inboxReply.messages[i].id > inboxReply.messages[j].id
\* C20: the history buffer never holds more than its capacity, is ordered
\* most-recent-first and on overflow drops exactly the oldest entries; the pull
\* query for key K returns at most `limit` entries (none for a limit below 1),
\* all of key K, in that order.
C20_InboxBufferBounded ==
    /\ C20_BufferKept
    /\ C20_ReplyScoped
    /\ inboxReply.asked =>
          Len(inboxReply.messages) <= Max(limitOf(inboxReply.limit), 0)

\* C21: publication is isolated from subscriber failure: no emit raises to
\* the producer, every live subscriber of the key has received every update
\* emitted since it registered, and a subscriber whose delivery failed is no
\* longer registered.
C21_PublishIsolated ==
    /\ \A k \in Keys : ~sessionEmitters[k].thrown
    /\ \A s \in Subs : sessionStreams[s].pc = "open" =>
          Tail(sessionStreams[s].out) =
              SubSeq(sessionEmitters[sessionStreams[s].key].emitted,
                     sessionStreams[s].from + 1,
                     Len(sessionEmitters[sessionStreams[s].key].emitted))
    /\ \A k \in Keys : sessionEmitters[k].thrown =>
          \A s \in sessionEmitters[k].listeners : sessionStreams[s].pc # "broken"

\* C22: for every input the Phone Normalizer either fails or returns at least
\* 8 characters, all digits, with display form "+" followed by them; it fails
\* exactly when fewer than 8 digits remain after normalization.  The examples:
\* "00212612345678" gives "212612345678", "0612345678" gives "612345678",
\* "123" fails.
C22_ParsePhoneContract ==
    (pureCall.fn = "parsePhone" /\ pureCall.done) =>
        LET r == pureCall.result
        IN  /\ r.ok => /\ Len(r.digits) >= 8
                       /\ \A i \in 1 .. Len(r.digits) : r.digits[i] \in DigitChars
                       /\ r.e164 = <<"+">> \o r.digits
            /\ ~r.ok <=> Len(r.digits) < 8
            /\ \A i \in 1 .. Len(r.digits) : r.digits[i] \in DigitChars
            /\ pureCall.arg = PhoneIntl =>
                  (r.ok /\ r.digits = SubSeq(PhoneIntl, 3, Len(PhoneIntl)))
            /\ pureCall.arg = PhoneLocal => (r.ok /\ r.digits = Tail(PhoneLocal))
            /\ pureCall.arg = PhoneBad => ~r.ok
C22_Witness ==
    /\ pureCall.done /\ pureCall.arg = PhoneLocal
    /\ pureCall.result.ok
    /\ pureCall.result.e164 = <<"+", "6", "1", "2", "3", "4", "5", "6", "7", "8">>

\* C23: after the non-digits are stripped and a leading 00 is dropped, one
\* leading 0 is removed only when the digit count remaining after its removal
\* still exceeds 8; otherwise the digits are left as they are, and no more than
\* one leading zero is removed by this rule.
C23_SingleZeroStripped ==
    (pureCall.fn = "parsePhone" /\ pureCall.done /\ pureCall.arg # <<>>) =>
        LET d0 == SelectSeq(pureCall.arg, IsDigit)
            d1 == IF Len(d0) >= 2 /\ SubSeq(d0, 1, 2) = <<"0", "0">>
                  THEN SubSeq(d0, 3, Len(d0)) ELSE d0
        IN  pureCall.result.digits =
                IF Len(d1) >= 1 /\ d1[1] = "0" /\ Len(d1) - 1 > 8 THEN Tail(d1) ELSE d1

\* a step is an operation or a provider signal for key a
C24_StepOf(a) ==
    \/ Ensure(a)
    \/ SubscribeSession(1, a)
    \/ RestartBegin(1, a)
    \/ rp[1].key = a /\ RestartFinish(1)
    \/ \E h \in Handles :
          /\ handles[h].key = a
          /\ OnAuthenticated(h) \/ OnReady(h) \/ OnDisconnected(h) \/ TimerFire(h)
\* nothing of key b changes: its state, its installed handle, its handles,
\* what was emitted for it and what its subscribers were sent
C24_Untouched(b) ==
    /\ sessionStates'[b] = sessionStates[b]
    /\ whatsappClients'[b] = whatsappClients[b]
    /\ \A h \in Handles : (handles[h].key = b /\ handles[h].phase # "unbuilt")
          => (handles'[h] = handles[h] /\ timers'[h] = timers[h])
    /\ sessionEmitters'[b] = sessionEmitters[b]
    /\ \A s \in Subs : (sessionStreams[s].pc # "none" /\ sessionStreams[s].key = b)
          => sessionStreams'[s] = sessionStreams[s]
C25_ReplyIssued ==
    \A p \in SProcs :
        (/\ Issued(p) /\ sp'[p].kind = "reply" /\ users[sp'[p].key].exists
         /\ Remaining(sp'[p].key) >= 1 /\ Connected(sp'[p].key))
        => /\ sp'[p].chatId # "none" => (sp'[p].pc = "send" /\ sp'[p].calls = 1)
           /\ (sp'[p].chatId = "none" /\ sp'[p].phone = PhoneOk)
                 => (sp'[p].pc = "resolve" /\ sp'[p].calls = 1)
           /\ (sp'[p].chatId = "none" /\ sp'[p].phone = NoPhone)
                 => /\ sp'[p].pc = "done" /\ sp'[p].result = "MISSING_TARGET"
                    /\ sp'[p].calls = 0 /\ users' = users /\ audit' = audit
\* a reply that names a chat never asks the provider to resolve a number
C25_ChatNeverResolved ==
    \A p \in SProcs : (sp[p].kind = "reply" /\ sp[p].chatId # "none")
        => sp[p].pc # "resolve"
C26_GrantAddsExactlyDelta ==
    [][\A k \in OneKey : audit'[k].grants = audit[k].grants + 1
          => /\ getQuotaInfo(users'[k]).limit =
                    getQuotaInfo(users[k]).limit + (audit'[k].granted - audit[k].granted)
             /\ users'[k].quotaUsed = users[k].quotaUsed]_vars

\* C27: QuotaInfo is limit = quotaLimit, used = quotaUsed, remaining =
\* max(limit - used, 0), never negative, for every stored quotaLimit, 0
\* included: a user whose stored quotaLimit is 0 has remaining 0.
C27_QuotaInfoIsStoredRecord ==
    \A k \in OneKey :
        LET q == getQuotaInfo(users[k])
        IN  /\ q.limit = users[k].quotaLimit
            /\ q.used = users[k].quotaUsed
            /\ q.remaining = Max(q.limit - q.used, 0)
            /\ q.remaining >= 0
            /\ users[k].quotaLimit = 0 => (q.remaining = 0 /\ ~ensureQuota(users[k], 1))

\* the delay a speed stands for: slow, normal, fast; normal when missing or unknown
C28_Configured(speed) ==
    IF speed = "slow" THEN DelaySlow ELSE IF speed = "fast" THEN DelayFast
    ELSE DelayNormal
\* C28: a campaign handles its recipients one at a time in input order: the
\* provider calls for recipient i+1 start only after the outcome of recipient i
\* is recorded and the configured delay has elapsed, and that delay (slow 5000,
\* normal 2000, fast 350; normal when missing or unknown) is applied after
\* every recipient, sent or failed.
C28_OneAtATimeWithDelay ==
    \A p \in SProcs : (sp[p].kind = "bulk" /\ sp[p].idx >= 1) =>
        /\ sp[p].pc \in {"resolve", "media", "send"}
              => (Len(sp[p].report) = sp[p].idx - 1 /\ Len(sp[p].waited) = sp[p].idx - 1)
        /\ sp[p].pc = "delay"
              => (Len(sp[p].report) = sp[p].idx /\ Len(sp[p].waited) = sp[p].idx - 1)
        /\ sp[p].pc = "done"
              => (Len(sp[p].report) = Len(sp[p].numbers)
                  /\ Len(sp[p].waited) = Len(sp[p].numbers))
        /\ \A i \in 1 .. Len(sp[p].waited) : sp[p].waited[i] = C28_Configured(sp[p].speed)
\* the part of C28 that holds: one at a time, and the configured delay after
\* every recipient, for every speed that is not an inherited property name
C28_PaceOfOwnSpeeds ==
    \A p \in SProcs : (sp[p].kind = "bulk" /\ sp[p].speed \notin InheritedNames) =>
        /\ Len(sp[p].waited) = (IF sp[p].pc \in {"resolve", "media", "send", "delay"}
                                THEN sp[p].idx - 1 ELSE Len(sp[p].report))
        /\ \A i \in 1 .. Len(sp[p].waited) : sp[p].waited[i] = C28_Configured(sp[p].speed)
\* a failed recipient of a fast campaign was followed by the fast delay
C28_FailedThenWaited ==
    \E p \in SProcs : /\ sp[p].kind = "bulk" /\ sp[p].speed = "fast"
                      /\ Len(sp[p].waited) >= 2
                      /\ \E i \in 1 .. Len(sp[p].waited) : sp[p].report[i].status = "failed"

\* C29: restart is best-effort about teardown: when the teardown of the existing
\* handle fails (as when it succeeds) the error is not propagated, a fresh
\* handle is built and installed in the registry, and restart returns
\* successfully at that moment, the new handle not yet connected.
C29_RestartBestEffort ==
    [][\A r \in RProcs : (rp[r].pc = "destroy" /\ rp'[r].pc = "idle") =>
          LET k == rp[r].key
              h == whatsappClients'[k]
          IN  /\ rp'[r].result = "ok"
              /\ h \in Handles /\ h \notin Built /\ h # rp[r].existing
              /\ handles'[h] = [key |-> k, phase |-> "init"]]_vars
\* a restart whose teardown failed has returned, the new handle installed and
\* still initializing
C29_Witness ==
    \E r \in RProcs, k \in Keys :
        /\ rp[r].pc = "idle" /\ rp[r].tdErr /\ rp[r].result = "ok"
        /\ whatsappClients[k] # NoHandle
        /\ handles[whatsappClients[k]].phase = "init"

\* the timer callback of handle h runs and calls client.initialize()
C30_Reinitializes(h) ==
    /\ timers'[h] = timers[h] - 1
    /\ whatsappClients[handles[h].key] = h
\* C30: the lifecycle handlers are idempotent under a signal delivered twice in
\* a row; in particular a duplicated disconnected signal leads to at most one
\* re-initialization of the handle: a timer re-initializes the handle only
\* while it is still disconnected, not once more after it was re-initialized.
C30_DuplicateDisconnectedOneReinit ==
    [][\A h \in Handles : C30_Reinitializes(h) => handles[h].phase = "down"]_vars
\* the part of C30 that holds: a handler run that writes the status the state
\* already has (the signal delivered again) leaves every field of it as it is
C30_StateFieldsIdempotent ==
    [][\A k \in Keys :
          (pendingQr' = pendingQr /\ sessionStates'[k].status = sessionStates[k].status)
              => sessionStates'[k] = sessionStates[k]]_vars
\* a disconnected signal was delivered twice in a row
C30_DeliveredTwice ==
    \E h \in Handles : timers[h] = 2 /\ sessionStates[handles[h].key].status = "disconnected"

\* C31: logout asks the provider to log the current handle out and then,
\* whether or not that succeeded, tears down and reinstalls as restart does:
\* the status becomes restarting when the provider logout has settled, and
\* when the logout returns it returns successfully with a handle installed for
\* the key that was built after the logout began, teardown failed or not.
C31_LogoutThenRestart ==
    [][\A r \in RProcs :
          /\ (rp[r].pc = "logout" /\ rp'[r].pc # "logout") =>
                /\ sessionStates'[rp[r].key].status = "restarting"
                /\ rp'[r].pc = "destroy" \/ rp'[r].result = "ok"
          /\ (rp[r].pc = "destroy" /\ rp[r].viaLogout /\ rp'[r].pc = "idle") =>
                LET h == whatsappClients'[rp[r].key]
                IN  /\ rp'[r].result = "ok"
                    /\ h \in Handles /\ h \notin Built
                    /\ handles'[h] = [key |-> rp[r].key, phase |-> "init"]]_vars
\* a logout whose provider logout and teardown both failed has returned, with
\* the new handle installed
C31_Witness ==
    \E r \in RProcs, k \in Keys :
        /\ rp[r].pc = "idle" /\ rp[r].loErr /\ rp[r].tdErr /\ rp[r].result = "ok"
        /\ whatsappClients[k] # NoHandle
        /\ handles[whatsappClients[k]].phase = "init"

\* C32: a campaign gives every recipient's send the attachment logic of a
\* single send: with an inline payload in the request, each recipient's send
\* carries the attachment without a remote fetch (inline before URL), and
\* each sent entry reports that an attachment was used.
C32_BulkCarriesInlineAttachment ==
    \A p \in SProcs : (sp[p].kind = "bulk" /\ sp[p].media \in {"inline", "both"}) =>
        /\ sp[p].pc # "media"
        /\ sp[p].pc = "send" => sp[p].usedMedia
        /\ \A i \in 1 .. Len(sp[p].report) :
              sp[p].report[i].status = "sent" => sp[p].report[i].media
\* the part of C32 that holds: a single send with an inline payload carries it,
\* without a fetch, and a campaign with only a URL fetches it for each recipient
C32_SingleCarriesInline ==
    \A p \in SProcs :
        /\ (sp[p].kind = "single" /\ sp[p].media \in {"inline", "both"}) =>
              /\ sp[p].pc # "media"
              /\ sp[p].pc = "send" => sp[p].usedMedia
        /\ (sp[p].kind = "bulk" /\ sp[p].media = "url") =>
              \A i \in 1 .. Len(sp[p].report) :
                  sp[p].report[i].status = "sent" => sp[p].report[i].media

\* a lifecycle handler registered on handle h runs and writes the state of its key
C33_SignalOf(h) ==
    \/ OnLoadingScreen(h)
    \/ OnAuthenticated(h)
    \/ OnReady(h)
    \/ OnAuthFailure(h)
    \/ OnDisconnected(h)
\* C33: only the handle installed for a key drives the key's SessionState: a
\* lifecycle signal of a handle that restart or logout has superseded never
\* changes the state (nor, with it, reaches the key's subscribers).
C33_OnlyInstalledHandleDrivesState ==
    [][\A h \in Handles : C33_SignalOf(h) => whatsappClients[handles[h].key] = h]_vars

\* C34: the state changes of a key are applied in the order of the provider's
\* signals: a qr signal emitted before authenticated or ready is never applied
\* after them, so the status never goes from authenticated or connected to qr.
C34_NoQrAfterAuthenticated ==
    [][\A k \in Keys : sessionStates[k].status \in {"authenticated", "connected"}
                          => sessionStates'[k].status # "qr"]_vars

\* request p hands a message to the provider: whatsappClient.sendMessage is called
C35_Dispatches(p) == sp[p].pc # "send" /\ sp'[p].pc = "send"
\* C35: a message is dispatched only through the handle installed for the key
\* and only while the key's status is connected at that moment: a send that
\* was suspended (address resolution, media fetch) while the session
\* disconnected or was restarted does not dispatch on the stale handle.
C35_DispatchOnlyWhileConnected ==
    [][\A p \in SProcs : C35_Dispatches(p) =>
          /\ Connected(sp'[p].key)
          /\ sp'[p].client = whatsappClients[sp'[p].key]]_vars

\* the provider accepted the message of request p in this step
C36_Delivered(p) ==
    /\ sp[p].pc = "send" /\ sp'[p].pc # "send"
    /\ audit'[sp[p].key].accepted = audit[sp[p].key].accepted + 1
\* C36: send outcomes are truthful under concurrency: a send reported to its
\* caller as failed (a bulk entry recorded as failed) delivered no message to
\* the provider; so quotaUsed, which starts at 0, is always the number of
\* messages the provider accepted.
C36_FailureMeansNotDelivered ==
    /\ [](\A k \in OneKey : users[k].exists => users[k].quotaUsed = audit[k].accepted)
    /\ [][\A p \in SProcs : C36_Delivered(p) => sp'[p].last = "ok"]_vars

\* C37: phone normalization is idempotent on its own output: when an input
\* normalizes to the digits d, normalizing d succeeds and returns d.
C37_ParsePhoneIdempotent ==
    (pureCall.fn = "parsePhone" /\ pureCall.done /\ pureCall.result.ok) =>
        /\ parsePhone(pureCall.result.digits).ok
        /\ parsePhone(pureCall.result.digits).digits = pureCall.result.digits
\* the part of C37 that holds: digits that do not begin with two zeros are
\* returned unchanged
C37_IdempotentWithoutDoubleZero ==
    (/\ pureCall.fn = "parsePhone" /\ pureCall.done /\ pureCall.result.ok
     /\ ~(pureCall.result.digits[1] = "0" /\ pureCall.result.digits[2] = "0")) =>
        /\ parsePhone(pureCall.result.digits).ok
        /\ parsePhone(pureCall.result.digits).digits = pureCall.result.digits

\* C38: inbox history is isolated per tenant: an inbound message for one key
\* never changes the result of the history query of another key (the entries
\* kept for a key are evicted only by newer entries of that key).
C38_InboxHistoryPerTenant ==
    [][\A h \in Handles : OnMessage(h) =>
          \A a \in Keys \ {handles[h].key} :
              inboxQuery(inboxMessages', a, NoLimit) = inboxQuery(inboxMessages, a, NoLimit)]_vars

\* the campaign of request p, past its upfront checks, returns to its caller
C39_CampaignEnds(p) ==
    sp[p].kind = "bulk" /\ sp[p].pc = "delay" /\ sp'[p].pc = "done"
\* C39: a campaign that has passed its upfront checks always returns the full
\* report of what it attempted with the final quota figures re-read from the
\* store, whatever happens meanwhile, the deletion of its user included.
C39_CampaignAlwaysReports ==
    [][\A p \in SProcs : C39_CampaignEnds(p) =>
          /\ sp'[p].result = "ok"
          /\ Len(sp'[p].report) = Len(sp'[p].numbers)
          /\ sp'[p].quota = getQuotaInfo(users[sp[p].key])]_vars
\* the part of C39 that holds: a campaign whose user is still in the store
\* when it ends returns the full report and the figures of the store
C39_ReportsWhileUserExists ==
    [][\A p \in SProcs : (C39_CampaignEnds(p) /\ users[sp[p].key].exists) =>
          /\ sp'[p].result = "ok"
          /\ Len(sp'[p].report) = Len(sp'[p].numbers)
          /\ sp'[p].quota = getQuotaInfo(users[sp[p].key])]_vars

\* the statuses that only a lifecycle handler of a handle writes
C40_HandlerStatuses ==
    {"qr", "loading", "authenticated", "connected", "disconnected", "auth_failure"}
\* C40: a key whose status is qr, loading, authenticated, connected,
\* disconnected or auth_failure has a handle installed in the registry, and
\* a key that has a handle installed has one ever after (handles are
\* replaced, never removed).
C40_RegistryHoldsHandle ==
    /\ [](\A k \in Keys : sessionStates[k].status \in C40_HandlerStatuses
                             => whatsappClients[k] \in Handles)
    /\ [][\A k \in Keys : whatsappClients[k] # NoHandle
                             => whatsappClients'[k] \in Handles]_vars
\* a key is connected through a handle that replaced an earlier one
C40_Witness ==
    \E k \in Keys : /\ sessionStates[k].status = "connected"
                    /\ whatsappClients[k] \in Handles
                    /\ \E g \in Handles : g # whatsappClients[k] /\ handles[g].key = k
                                          /\ handles[g].phase = "destroyed"

TypeOK ==
    /\ \A k \in Keys : sessionStates[k] = NoState \/ sessionStates[k].status \in Statuses
    /\ \A h \in Handles : timers[h] \in 0 .. Max(MaxTimers, MaxRepeats)
    /\ \A k \in Keys : whatsappClients[k] \in Handles \cup {NoHandle}

====
